---- MODULE Spec2Model ----
(***************************************************************************)
(* Model of the dataset builder of the text-cleanup fine-tuning set        *)
(* (src/dataset_builder.py): artifact resolution, per-sample metadata,     *)
(* dataset aggregation, validation and training export; and of the         *)
(* collaborators that produce the artifacts, the recorder GUI              *)
(* (src/transcript_recorder.py) and the batch processor                    *)
(* (src/process_audio.py).                                                 *)
(*                                                                         *)
(* Spec runs the command-line operations over registries and artifact      *)
(* files that stay as they are; SpecDamaged, SpecValidate, SpecExport,     *)
(* SpecRebuild and SpecExample run them over particular inputs (a damaged  *)
(* artifact, an earlier dataset.json, the worked example); SpecConcurrent  *)
(* follows one build file access by file access beside a collaborator      *)
(* that creates files; SpecRecorder runs the recorder GUI, its processing  *)
(* threads and the batch processor.                                        *)
(*                                                                         *)
(* Text is a sequence of one-character strings, so that str.strip() and    *)
(* str.split() are computed and not assumed.  An optional value (Python's  *)
(* None or a value) is the empty sequence or a one-element sequence.       *)
(***************************************************************************)
EXTENDS Integers, Sequences, FiniteSets, TLC

VARIABLES
    questions_file,   \* dataset/questions.json: [exists, questions]
    fs,               \* artifact files: path -> content, DOMAIN = existing files
    dataset_file,     \* dataset/dataset.json: None or Some(dataset)
    training_jsonl,   \* dataset_training.jsonl: None or Some(sequence of lines)
    training_json,    \* dataset_training.json: None or Some(document)
    report,           \* report returned by the most recent call, None unless it validated
    raised,           \* exception that ended the most recent call ("" = none)
    build,            \* the build followed file access by file access: its position and locals
    recorder          \* the recorder GUI: its registry file, its fields, its threads

vars == <<questions_file, fs, dataset_file, training_jsonl, training_json, report, raised,
          build, recorder>>

----------------------------------------------------------------------------
(* Bounds of the model *)

\* longest registry drawn
MaxSamples == 2
\* most artifact files present for the sample whose files are drawn freely
MaxFiles == 2

----------------------------------------------------------------------------
(* Optional values *)

None == <<>>
Some(x) == <<x>>
\* Python truthiness of an Optional[str]: None and "" are falsy
Truthy(o) == o # None /\ o[1] # <<>>

----------------------------------------------------------------------------
(* Text primitives *)

\* the characters str.strip() and str.split() treat as whitespace
Whitespace == {" ", "\n", "\t"}

RECURSIVE lstrip(_)
lstrip(s) ==
    IF s = <<>> THEN <<>>
    ELSE IF Head(s) \in Whitespace THEN lstrip(Tail(s)) ELSE s

RECURSIVE rstrip(_)
rstrip(s) ==
    IF s = <<>> THEN <<>>
    ELSE IF s[Len(s)] \in Whitespace THEN rstrip(SubSeq(s, 1, Len(s) - 1)) ELSE s

\* str.strip()
strip(s) == rstrip(lstrip(s))

\* length of the leading run of non-whitespace characters
RECURSIVE WordLen(_)
WordLen(s) ==
    IF s = <<>> \/ Head(s) \in Whitespace THEN 0 ELSE 1 + WordLen(Tail(s))

\* str.split(): the whitespace-delimited tokens, in order
RECURSIVE split(_)
split(s) ==
    LET t == lstrip(s)
        n == WordLen(t)
    IN  IF t = <<>> THEN <<>>
        ELSE <<SubSeq(t, 1, n)>> \o split(SubSeq(t, n + 1, Len(t)))

\* the count taken as len(text), the number of characters
count_chars(text) == Len(text)

count_words(text) == Len(split(text))

----------------------------------------------------------------------------
(* Directories and paths (DatasetBuilder.__init__) *)

audio_dir == "dataset/data/audio"
whisper_dir == "dataset/data/whisper-transcripts"
auto_cleanup_dir == "dataset/data/auto-cleanup"
manual_cleanup_dir == "dataset/data/manual-cleanups"

TextDirs == {whisper_dir, auto_cleanup_dir, manual_cleanup_dir}

\* dir / f"{stem}.{ext}"
Path(dir, stem, ext) == [dir |-> dir, stem |-> stem, ext |-> ext]

\* Path.exists()
exists(f, p) == p \in DOMAIN f

\* question_data.get('recorded', False)
get_recorded(q) == IF "recorded" \in DOMAIN q THEN q.recorded ELSE FALSE

----------------------------------------------------------------------------
(* File readers *)

\* open(..., encoding='utf-8').read() fails on bytes that are not UTF-8
read_raises(f, p) == exists(f, p) /\ ~f[p].decodable

read_text_file(f, p) ==
    IF ~exists(f, p) THEN None ELSE Some(strip(f[p].data))

\* sf.read failing is caught: None.  Otherwise len(data) / samplerate,
\* kept in whole seconds.
get_audio_duration(f, p) ==
    IF exists(f, p) /\ f[p].decodable /\ "samplerate" \in DOMAIN f[p]
    THEN Some(Len(f[p].data) \div f[p].samplerate)
    ELSE None

----------------------------------------------------------------------------
(* Artifact resolution (build_sample_metadata, lines 62-79) *)

\* the audio candidates tried number-named first
audio_path_numeric_first(f, q) ==
    LET p1 == Path(audio_dir, ToString(q.number), "wav")
        p2 == Path(audio_dir, q.uuid, "wav")
        p3 == Path(audio_dir, ToString(q.number), "mp3")
    IN  IF exists(f, p1) THEN p1 ELSE IF exists(f, p2) THEN p2 ELSE p3

resolve_audio(f, q) ==
    LET p1 == Path(audio_dir, q.uuid, "wav")
        p2 == Path(audio_dir, ToString(q.number), "wav")
        p3 == Path(audio_dir, ToString(q.number), "mp3")
    IN  IF exists(f, p1) THEN p1 ELSE IF exists(f, p2) THEN p2 ELSE p3

\* the text candidates tried number-named first
text_path_numeric_first(f, dir, q) ==
    LET p1 == Path(dir, ToString(q.number), "txt")
        p2 == Path(dir, q.uuid, "txt")
    IN  IF exists(f, p1) THEN p1 ELSE p2

resolve_text(f, dir, q) ==
    LET p1 == Path(dir, q.uuid, "txt")
        p2 == Path(dir, ToString(q.number), "txt")
    IN  IF exists(f, p1) THEN p1 ELSE p2

\* str(path.relative_to(base_dir)) if path.exists() else None
file_ref(f, p) == IF exists(f, p) THEN Some(p) ELSE None

----------------------------------------------------------------------------
(* Sample Metadata Builder (build_sample_metadata) *)

\* "files": a reference for each artifact whose resolved path exists
sample_files(f, audio_path, whisper_path, auto_cleanup_path, manual_cleanup_path) ==
    [audio |-> file_ref(f, audio_path),
     whisper_transcript |-> file_ref(f, whisper_path),
     auto_cleanup |-> file_ref(f, auto_cleanup_path),
     manual_cleanup |-> file_ref(f, manual_cleanup_path)]

\* "audio_metadata"
audio_metadata(f, audio_path) ==
    IF exists(f, audio_path)
    THEN Some([duration_seconds |-> get_audio_duration(f, audio_path),
               format |-> audio_path.ext,
               sample_rate |-> 44100])
    ELSE None

\* "text_statistics": count_words(text) if text else None
text_statistics(whisper_text, auto_cleanup_text, manual_cleanup_text) ==
    [whisper_word_count |->
        IF Truthy(whisper_text) THEN Some(count_words(whisper_text[1])) ELSE None,
     auto_cleanup_word_count |->
        IF Truthy(auto_cleanup_text) THEN Some(count_words(auto_cleanup_text[1])) ELSE None,
     manual_cleanup_word_count |->
        IF Truthy(manual_cleanup_text) THEN Some(count_words(manual_cleanup_text[1])) ELSE None]

\* "status", with the auto cleanup taken into is_complete
sample_status_with_auto(f, audio_path, whisper_path, whisper_text, auto_cleanup_path, auto_cleanup_text, manual_cleanup_path, manual_cleanup_text) ==
    [has_audio |-> exists(f, audio_path),
     has_whisper_transcript |-> exists(f, whisper_path) /\ Truthy(whisper_text),
     has_auto_cleanup |-> exists(f, auto_cleanup_path) /\ Truthy(auto_cleanup_text),
     has_manual_cleanup |-> exists(f, manual_cleanup_path) /\ Truthy(manual_cleanup_text),
     is_complete |->
        /\ exists(f, audio_path)
        /\ exists(f, whisper_path) /\ Truthy(whisper_text)
        /\ exists(f, auto_cleanup_path) /\ Truthy(auto_cleanup_text)
        /\ exists(f, manual_cleanup_path) /\ Truthy(manual_cleanup_text)]

\* "status", with every flag taken from the existence of the file alone
sample_status_by_existence(f, audio_path, whisper_path, whisper_text, auto_cleanup_path, auto_cleanup_text, manual_cleanup_path, manual_cleanup_text) ==
    [has_audio |-> exists(f, audio_path),
     has_whisper_transcript |-> exists(f, whisper_path),
     has_auto_cleanup |-> exists(f, auto_cleanup_path),
     has_manual_cleanup |-> exists(f, manual_cleanup_path),
     is_complete |->
        /\ exists(f, audio_path)
        /\ exists(f, whisper_path)
        /\ exists(f, manual_cleanup_path)]

\* "status"
sample_status(f, audio_path, whisper_path, whisper_text, auto_cleanup_path, auto_cleanup_text, manual_cleanup_path, manual_cleanup_text) ==
    [has_audio |-> exists(f, audio_path),
     has_whisper_transcript |-> exists(f, whisper_path) /\ Truthy(whisper_text),
     has_auto_cleanup |-> exists(f, auto_cleanup_path) /\ Truthy(auto_cleanup_text),
     has_manual_cleanup |-> exists(f, manual_cleanup_path) /\ Truthy(manual_cleanup_text),
     is_complete |->
        /\ exists(f, audio_path)
        /\ exists(f, whisper_path) /\ Truthy(whisper_text)
        /\ exists(f, manual_cleanup_path) /\ Truthy(manual_cleanup_text)]

\* "content", with a key for each text that was read, empty or not
sample_content_existing(whisper_text, auto_cleanup_text, manual_cleanup_text) ==
    LET text == [k \in {"whisper_transcript", "auto_cleanup", "manual_cleanup"} |->
                    CASE k = "whisper_transcript" -> whisper_text
                      [] k = "auto_cleanup" -> auto_cleanup_text
                      [] OTHER -> manual_cleanup_text]
    IN  [k \in {key \in DOMAIN text : text[key] # None} |-> text[k][1]]

\* "content": a key for each text that is truthy
sample_content(whisper_text, auto_cleanup_text, manual_cleanup_text) ==
    LET text == [k \in {"whisper_transcript", "auto_cleanup", "manual_cleanup"} |->
                    CASE k = "whisper_transcript" -> whisper_text
                      [] k = "auto_cleanup" -> auto_cleanup_text
                      [] OTHER -> manual_cleanup_text]
    IN  [k \in {key \in DOMAIN text : Truthy(text[key])} |-> text[k][1]]

\* the text files build_sample_metadata opens for q
sample_text_paths(f, q) ==
    {resolve_text(f, d, q) : d \in TextDirs}

\* a read of one of them raises (UnicodeDecodeError), and so does the build
sample_raises(f, q) == \E p \in sample_text_paths(f, q) : read_raises(f, p)

build_sample_metadata(f, q) ==
    LET audio_path == resolve_audio(f, q)
        whisper_path == resolve_text(f, whisper_dir, q)
        auto_cleanup_path == resolve_text(f, auto_cleanup_dir, q)
        manual_cleanup_path == resolve_text(f, manual_cleanup_dir, q)
        whisper_text == read_text_file(f, whisper_path)
        auto_cleanup_text == read_text_file(f, auto_cleanup_path)
        manual_cleanup_text == read_text_file(f, manual_cleanup_path)
    IN  [id |-> q.uuid,
         sample_number |-> q.number,
         question |-> q.question,
         recorded |-> get_recorded(q),
         files |-> sample_files(f, audio_path, whisper_path, auto_cleanup_path,
                                manual_cleanup_path),
         audio_metadata |-> audio_metadata(f, audio_path),
         text_statistics |-> text_statistics(whisper_text, auto_cleanup_text,
                                             manual_cleanup_text),
         status |-> sample_status(f, audio_path, whisper_path, whisper_text,
                                  auto_cleanup_path, auto_cleanup_text,
                                  manual_cleanup_path, manual_cleanup_text),
         content |-> sample_content(whisper_text, auto_cleanup_text,
                                    manual_cleanup_text)]

----------------------------------------------------------------------------
(* Dataset Aggregator (build_dataset) *)

\* sum(1 for s in samples if pred)
RECURSIVE count_complete(_)
count_complete(samples) ==
    IF samples = <<>> THEN 0
    ELSE (IF Head(samples).status.is_complete THEN 1 ELSE 0) + count_complete(Tail(samples))

\* the recorded count, taken from the presence of audio and not from the flag
RECURSIVE count_recorded_by_audio(_)
count_recorded_by_audio(samples) ==
    IF samples = <<>> THEN 0
    ELSE (IF Head(samples).status.has_audio THEN 1 ELSE 0)
         + count_recorded_by_audio(Tail(samples))

RECURSIVE count_recorded(_)
count_recorded(samples) ==
    IF samples = <<>> THEN 0
    ELSE (IF Head(samples).recorded THEN 1 ELSE 0) + count_recorded(Tail(samples))

\* "statistics", with an empty registry counted as fully complete
statistics_empty_complete(samples) ==
    [total_samples |-> Len(samples),
     recorded_samples |-> count_recorded(samples),
     completed_samples |-> count_complete(samples),
     completion_percentage |->
        IF Len(samples) > 0 THEN (count_complete(samples) * 100) \div Len(samples) ELSE 100]

\* "statistics"; the percentage is kept as a whole number
statistics(samples) ==
    LET total_samples == Len(samples)
        completed_samples == count_complete(samples)
        recorded_samples == count_recorded(samples)
    IN  [total_samples |-> total_samples,
         recorded_samples |-> recorded_samples,
         completed_samples |-> completed_samples,
         completion_percentage |->
            IF total_samples > 0 THEN (completed_samples * 100) \div total_samples ELSE 0]

\* the exception build_dataset ends with, "" when it returns
build_raises(qf, f) ==
    IF ~qf.exists THEN "FileNotFoundError"
    ELSE IF \E i \in 1..Len(qf.questions) : sample_raises(f, qf.questions[i])
         THEN "UnicodeDecodeError"
         ELSE ""

\* "statistics" and "samples" of the dataset build_dataset returns: one record
\* per registry entry, in order
build_dataset(qf, f) ==
    LET samples == [i \in 1..Len(qf.questions) |-> build_sample_metadata(f, qf.questions[i])]
    IN  [statistics |-> statistics(samples),
         samples |-> samples]

\* the readings of datetime.now().isoformat() a build may take
Clock == {"t1", "t2"}

\* "metadata": the constant provenance and the time of the build
dataset_metadata(now) ==
    [name |-> "Text Cleanup Fine-Tuning Dataset",
     version |-> "1.0.0",
     created |-> now]

\* the whole dataset of a build made when the clock reads now
build_dataset_at(qf, f, now) ==
    LET dataset == build_dataset(qf, f)
    IN  [metadata |-> dataset_metadata(now),
         statistics |-> dataset.statistics,
         samples |-> dataset.samples]

----------------------------------------------------------------------------
(* Validator (validate_dataset) *)

\* f"Sample {sample['sample_number']}: {e}"
finding(sample, e) == [sample_number |-> sample.sample_number, text |-> e]

\* the error findings, with the transcript check left out
sample_errors_audio_only(sample) ==
    IF ~sample.status.has_audio THEN <<"Missing audio file">> ELSE <<>>

\* the error findings of one sample (lines 229-233)
sample_errors(sample) ==
    (IF ~sample.status.has_audio THEN <<"Missing audio file">> ELSE <<>>)
    \o (IF ~sample.status.has_whisper_transcript THEN <<"Missing Whisper transcript">> ELSE <<>>)

\* the warning findings, with the auto cleanup treated like the manual one
sample_warnings_flag_auto(sample) ==
    (IF ~sample.status.has_auto_cleanup THEN <<"Missing auto cleanup">> ELSE <<>>)
    \o (IF ~sample.status.has_manual_cleanup
        THEN <<"Missing manual cleanup (ground truth)">> ELSE <<>>)

\* the warning findings, with the missing manual cleanup passed over
sample_warnings_silent(sample) ==
    IF /\ sample.text_statistics.manual_cleanup_word_count # None
       /\ sample.text_statistics.manual_cleanup_word_count[1] = 0
    THEN <<"Manual cleanup is empty">> ELSE <<>>

\* the warning findings of one sample (lines 234-242)
sample_warnings(sample) ==
    (IF ~sample.status.has_manual_cleanup
     THEN <<"Missing manual cleanup (ground truth)">> ELSE <<>>)
    \o (IF /\ sample.text_statistics.manual_cleanup_word_count # None
           /\ sample.text_statistics.manual_cleanup_word_count[1] = 0
        THEN <<"Manual cleanup is empty">> ELSE <<>>)

\* the per-sample entry appended to report['samples']
sample_report(sample) ==
    [sample_number |-> sample.sample_number,
     id |-> sample.id,
     errors |-> sample_errors(sample),
     warnings |-> sample_warnings(sample),
     valid |-> Len(sample_errors(sample)) = 0]

\* the loop, with a warning invalidating the dataset as an error does
RECURSIVE validate_loop_strict(_, _)
validate_loop_strict(rep, samples) ==
    IF samples = <<>> THEN rep
    ELSE LET sample == Head(samples)
             sr == sample_report(sample)
         IN  validate_loop_strict(
                 [valid |-> IF sr.errors # <<>> \/ sr.warnings # <<>> THEN FALSE ELSE rep.valid,
                  errors |-> rep.errors
                      \o [i \in 1..Len(sr.errors) |-> finding(sample, sr.errors[i])],
                  warnings |-> rep.warnings
                      \o [i \in 1..Len(sr.warnings) |-> finding(sample, sr.warnings[i])],
                  samples |-> Append(rep.samples, sr)],
                 Tail(samples))

\* the loop of lines 221-252, from the report built so far
RECURSIVE validate_loop(_, _)
validate_loop(rep, samples) ==
    IF samples = <<>> THEN rep
    ELSE LET sample == Head(samples)
             sr == sample_report(sample)
         IN  validate_loop(
                 [valid |-> IF sr.errors # <<>> THEN FALSE ELSE rep.valid,
                  errors |-> rep.errors
                      \o [i \in 1..Len(sr.errors) |-> finding(sample, sr.errors[i])],
                  warnings |-> rep.warnings
                      \o [i \in 1..Len(sr.warnings) |-> finding(sample, sr.warnings[i])],
                  samples |-> Append(rep.samples, sr)],
                 Tail(samples))

validate_dataset(dataset) ==
    validate_loop([valid |-> TRUE, errors |-> <<>>, warnings |-> <<>>, samples |-> <<>>],
                  dataset.samples)

----------------------------------------------------------------------------
(* JSON text: json.dumps escapes control characters, quotes and backslashes
   inside a string; json.loads undoes it *)

RECURSIVE json_escape(_)
json_escape(s) ==
    IF s = <<>> THEN <<>>
    ELSE LET c == Head(s)
         IN  (CASE c = "\n" -> <<"\\", "n">>
                [] c = "\t" -> <<"\\", "t">>
                [] c = "\\" -> <<"\\", "\\">>
                [] c = "\"" -> <<"\\", "\"">>
                [] OTHER -> <<c>>) \o json_escape(Tail(s))

RECURSIVE json_unescape(_)
json_unescape(s) ==
    IF s = <<>> THEN <<>>
    ELSE IF Head(s) = "\\" /\ Len(s) >= 2
         THEN LET c == s[2]
              IN  <<CASE c = "n" -> "\n" [] c = "t" -> "\t" [] OTHER -> c>>
                  \o json_unescape(SubSeq(s, 3, Len(s)))
         ELSE <<Head(s)>> \o json_unescape(Tail(s))

\* json.dumps(training_sample, ensure_ascii=False)
json_dumps(rec) ==
    [input |-> json_escape(rec.input),
     output |-> json_escape(rec.output),
     metadata |-> rec.metadata]

\* json.loads of one dumped record
json_loads(doc) ==
    [input |-> json_unescape(doc.input),
     output |-> json_unescape(doc.output),
     metadata |-> doc.metadata]

----------------------------------------------------------------------------
(* Exporter (export_for_training) *)

\* sample['content'][k] raises KeyError when the key is absent
training_sample_raises(sample) ==
    \/ "whisper_transcript" \notin DOMAIN sample.content
    \/ "manual_cleanup" \notin DOMAIN sample.content

\* the training sample with transcript and cleanup exchanged
training_sample_jsonl_swapped(sample) ==
    [input |-> sample.content["manual_cleanup"],
     output |-> sample.content["whisper_transcript"],
     metadata |-> [sample_id |-> sample.id,
                   sample_number |-> sample.sample_number,
                   question |-> sample.question]]

\* the training_sample dict of lines 265-273
training_sample_jsonl(sample) ==
    [input |-> sample.content["whisper_transcript"],
     output |-> sample.content["manual_cleanup"],
     metadata |-> [sample_id |-> sample.id,
                   sample_number |-> sample.sample_number,
                   question |-> sample.question]]

\* the training sample with the question left out of its metadata
training_sample_json_no_question(sample) ==
    [input |-> sample.content["whisper_transcript"],
     output |-> sample.content["manual_cleanup"],
     metadata |-> [sample_id |-> sample.id,
                   sample_number |-> sample.sample_number,
                   question |-> ""]]

\* the training_sample dict of lines 281-289
training_sample_json(sample) ==
    [input |-> sample.content["whisper_transcript"],
     output |-> sample.content["manual_cleanup"],
     metadata |-> [sample_id |-> sample.id,
                   sample_number |-> sample.sample_number,
                   question |-> sample.question]]

\* the loop of lines 263-274: the lines written until a sample raises
RECURSIVE export_jsonl_loop(_, _)
export_jsonl_loop(out, samples) ==
    IF samples = <<>> THEN out
    ELSE LET sample == Head(samples)
         IN  IF ~sample.status.is_complete THEN export_jsonl_loop(out, Tail(samples))
             ELSE IF training_sample_raises(sample)
                  THEN [out EXCEPT !.raised = "KeyError"]
                  ELSE export_jsonl_loop(
                           [out EXCEPT !.lines =
                                Append(@, json_dumps(training_sample_jsonl(sample)))],
                           Tail(samples))

\* the loop of lines 279-290: training_data until a sample raises
RECURSIVE export_json_loop(_, _)
export_json_loop(out, samples) ==
    IF samples = <<>> THEN out
    ELSE LET sample == Head(samples)
         IN  IF ~sample.status.is_complete THEN export_json_loop(out, Tail(samples))
             ELSE IF training_sample_raises(sample)
                  THEN [out EXCEPT !.raised = "KeyError"]
                  ELSE export_json_loop(
                           [out EXCEPT !.lines =
                                Append(@, training_sample_json(sample))],
                           Tail(samples))

\* the formats the CLI may pass; "csv" stands for every unsupported one
Formats == {"jsonl", "json", "csv"}

\* json.dump(training_data, f, indent=2, ensure_ascii=False): one array document
json_dump_array(training_data) ==
    [array |-> [i \in 1..Len(training_data) |-> json_dumps(training_data[i])]]

----------------------------------------------------------------------------
(* Inputs: registries and artifact files *)

\* questions the registry is drawn from; Q3 shares its number with Q1 and
\* carries no 'recorded' key
Bank ==
    {[uuid |-> "a1", number |-> 1, question |-> "Q1", recorded |-> TRUE],
     [uuid |-> "b2", number |-> 2, question |-> "Q2", recorded |-> FALSE],
     [uuid |-> "c3", number |-> 1, question |-> "Q3"]}

\* registries of n distinct questions
Registries(n) ==
    {r \in [1..n -> Bank] : \A i, j \in 1..n : i # j => r[i] # r[j]}

\* raw file texts: empty, whitespace only, one word, and two words with
\* surrounding whitespace and a line break between them
EmptyText == <<>>
BlankText == <<" ", "\n">>
OneWord == <<"h", "i">>
TwoWords == <<" ", "o", "k", "\n", "g", "o", " ">>

\* the texts a freely drawn file may hold
Texts == {EmptyText, BlankText, TwoWords}

TextFile(t) == [decodable |-> TRUE, data |-> t]
TextContents == {TextFile(t) : t \in Texts}

\* a decodable recording: four frames at two frames per second
Wav == [decodable |-> TRUE, data |-> <<0, 0, 0, 0>>, samplerate |-> 2]
AudioContents == {Wav}

\* the paths build_sample_metadata may look at for q
AudioCandidates(q) ==
    {Path(audio_dir, q.uuid, "wav"),
     Path(audio_dir, ToString(q.number), "wav"),
     Path(audio_dir, ToString(q.number), "mp3")}

TextCandidates(q) ==
    {Path(d, stem, "txt") : d \in TextDirs, stem \in {q.uuid, ToString(q.number)}}

EmptyFs == [p \in {} |-> Wav]

\* a file whose bytes cannot be decoded: not UTF-8 for open(..., encoding=
\* 'utf-8'), not a sound file for sf.read
Damaged == [decodable |-> FALSE, data |-> <<>>]

\* the files f with the one at p damaged
Damage(f, p) == [f EXCEPT ![p] = Damaged]

\* what the collaborators leave behind for question q:
\*   "none"      nothing recorded yet
\*   "audio"     the recording only
\*   "transcribed" recording and transcript: processing stopped at the cleanup
\*   "processed" recording, transcript, auto cleanup and a blank manual cleanup
\*   "cleaned"   the same with the manual cleanup written
\*   "legacy"    number-named mp3, transcript and manual cleanup, no auto cleanup
Profiles == {"none", "audio", "transcribed", "processed", "cleaned", "legacy"}

ProfileFiles(q, transcript, cleanup, profile) ==
    LET id_audio == Path(audio_dir, q.uuid, "wav") :> Wav
        id_whisper == Path(whisper_dir, q.uuid, "txt") :> TextFile(transcript)
        id_auto == Path(auto_cleanup_dir, q.uuid, "txt") :> TextFile(cleanup)
        id_blank == Path(manual_cleanup_dir, q.uuid, "txt") :> TextFile(EmptyText)
        id_manual == Path(manual_cleanup_dir, q.uuid, "txt") :> TextFile(cleanup)
        n == ToString(q.number)
    IN  CASE profile = "none" -> EmptyFs
          [] profile = "audio" -> id_audio
          [] profile = "transcribed" -> id_audio @@ id_whisper
          [] profile = "processed" -> id_audio @@ id_whisper @@ id_auto @@ id_blank
          [] profile = "cleaned" -> id_audio @@ id_whisper @@ id_auto @@ id_manual
          [] OTHER -> (Path(audio_dir, n, "mp3") :> Wav)
                      @@ (Path(whisper_dir, n, "txt") :> TextFile(transcript))
                      @@ (Path(manual_cleanup_dir, n, "txt") :> TextFile(cleanup))

\* the files of a whole registry; on a shared path the later question's file stands
RECURSIVE RegistryFiles(_, _, _)
RegistryFiles(r, prof, n) ==
    IF n = 0 THEN EmptyFs
    ELSE LET transcript == IF n % 2 = 1 THEN TwoWords ELSE OneWord
             cleanup == IF n % 2 = 1 THEN OneWord ELSE TwoWords
         IN  ProfileFiles(r[n], transcript, cleanup, prof[n]) @@ RegistryFiles(r, prof, n - 1)

----------------------------------------------------------------------------
(* Initial states *)

\* no build is being followed
Idle == [pc |-> "idle"]

\* the recorder GUI is not running
Closed == [running |-> FALSE]

NoOutput ==
    /\ dataset_file = None
    /\ training_jsonl = None
    /\ training_json = None
    /\ report = None
    /\ raised = ""
    /\ build = Idle
    /\ recorder = Closed

\* one question whose artifact files are drawn freely, at most MaxFiles of them
InitOneSample ==
    \E q \in {qq \in Bank : qq.uuid = "a1"} :
    \E SA \in SUBSET AudioCandidates(q), ST \in SUBSET TextCandidates(q) :
        /\ Cardinality(SA) + Cardinality(ST) <= MaxFiles
        /\ questions_file = [exists |-> TRUE, questions |-> <<q>>]
        /\ \E ga \in [SA -> AudioContents], gt \in [ST -> TextContents] : fs = ga @@ gt
        /\ NoOutput

\* up to MaxSamples questions, each in one of the collaborators' profiles
InitRegistry ==
    \E n \in 0..MaxSamples :
    \E r \in Registries(n), prof \in [1..n -> Profiles] :
        /\ questions_file = [exists |-> TRUE, questions |-> r]
        /\ fs = RegistryFiles(r, prof, n)
        /\ NoOutput

\* dataset/questions.json does not exist
InitNoRegistry ==
    /\ questions_file = [exists |-> FALSE, questions |-> <<>>]
    /\ fs = EmptyFs
    /\ NoOutput

Init == InitOneSample \/ InitRegistry \/ InitNoRegistry

\* the worked example: one recorded question with its recording, the
\* transcript "hello world" and the manual cleanup "Hello, world."
HelloWorld == <<"h", "e", "l", "l", "o", " ", "w", "o", "r", "l", "d">>
HelloWorldCleaned == <<"H", "e", "l", "l", "o", ",", " ", "w", "o", "r", "l", "d", ".">>

ExampleRegistry ==
    <<[uuid |-> "a1", number |-> 1, question |-> "Q1", recorded |-> TRUE]>>

\* what the example leaves open: whether a text file ends in a line break,
\* and whether an auto cleanup exists, blank or written
InitExample ==
    \E transcript_end, cleanup_end \in {<<>>, <<"\n">>} :
    \E auto \in {EmptyFs,
                  Path(auto_cleanup_dir, "a1", "txt") :> TextFile(BlankText),
                  Path(auto_cleanup_dir, "a1", "txt") :> TextFile(HelloWorldCleaned)} :
        /\ questions_file = [exists |-> TRUE, questions |-> ExampleRegistry]
        /\ fs = (Path(audio_dir, "a1", "wav") :> Wav)
                @@ (Path(whisper_dir, "a1", "txt") :> TextFile(HelloWorld \o transcript_end))
                @@ (Path(manual_cleanup_dir, "a1", "txt")
                        :> TextFile(HelloWorldCleaned \o cleanup_end))
                @@ auto
        /\ NoOutput

\* a dataset.json persisted by an earlier invocation, at a time before the
\* clock's readings: built when the registry's artifacts were those of the
\* profile (none yet, or all of them)
Persisted(r, profile) ==
    build_dataset_at([exists |-> TRUE, questions |-> r],
                     RegistryFiles(r, [i \in 1..Len(r) |-> profile], Len(r)),
                     "t0")

\* up to MaxSamples questions, each without artifacts or with all of them,
\* and a dataset.json left by an earlier invocation
InitPersisted ==
    \E n \in 0..MaxSamples :
    \E r \in Registries(n), prof \in [1..n -> {"none", "cleaned", "legacy"}] :
    \E earlier \in {"none", "cleaned"} :
        /\ questions_file = [exists |-> TRUE, questions |-> r]
        /\ fs = RegistryFiles(r, prof, n)
        /\ dataset_file = Some(Persisted(r, earlier))
        /\ training_jsonl = None
        /\ training_json = None
        /\ report = None
        /\ raised = ""
        /\ build = Idle
        /\ recorder = Closed

\* up to MaxSamples questions with all their artifacts, identifier-named or
\* number-named, one file of which is damaged
InitDamaged ==
    \E n \in 1..MaxSamples :
    \E r \in Registries(n), prof \in [1..n -> {"cleaned", "legacy"}] :
    \E p \in DOMAIN RegistryFiles(r, prof, n) :
        /\ questions_file = [exists |-> TRUE, questions |-> r]
        /\ fs = Damage(RegistryFiles(r, prof, n), p)
        /\ NoOutput

----------------------------------------------------------------------------
(* Operations *)

\* Each operation is one invocation of the command line: its return value
\* and its exception replace those of the invocation before it, the files it
\* wrote stay.  No collaborator writes while it runs, so it is one step.

\* `build`, with an existing dataset.json kept and only its time refreshed
SaveDataset_refreshing ==
    LET exc == build_raises(questions_file, fs)
    IN  /\ raised' = exc
        /\ \E now \in Clock :
               dataset_file' =
                   IF exc # "" THEN dataset_file
                   ELSE IF dataset_file = None
                        THEN Some(build_dataset_at(questions_file, fs, now))
                        ELSE Some([dataset_file[1] EXCEPT !.metadata = dataset_metadata(now)])
        /\ report' = None
        /\ UNCHANGED <<questions_file, fs, training_jsonl, training_json, build, recorder>>

\* `build`: save_dataset() writes dataset.json, stamped with the time of the
\* build; nothing is written when the build raises
SaveDataset ==
    LET exc == build_raises(questions_file, fs)
    IN  /\ raised' = exc
        /\ \E now \in Clock :
               dataset_file' = IF exc = "" THEN Some(build_dataset_at(questions_file, fs, now))
                                          ELSE dataset_file
        /\ report' = None
        /\ UNCHANGED <<questions_file, fs, training_jsonl, training_json, build, recorder>>

\* `validate`, building through save_dataset() and so writing dataset.json
ValidateDataset_saving ==
    LET exc == build_raises(questions_file, fs)
    IN  /\ raised' = exc
        /\ report' = IF exc = "" THEN Some(validate_dataset(build_dataset(questions_file, fs)))
                                 ELSE None
        /\ \E now \in Clock :
               dataset_file' = IF exc = "" THEN Some(build_dataset_at(questions_file, fs, now))
                                          ELSE dataset_file
        /\ UNCHANGED <<questions_file, fs, training_jsonl, training_json, build, recorder>>

\* `validate`: validate_dataset() over a fresh build
ValidateDataset ==
    LET exc == build_raises(questions_file, fs)
    IN  /\ raised' = exc
        /\ report' = IF exc = "" THEN Some(validate_dataset(build_dataset(questions_file, fs)))
                                 ELSE None
        /\ UNCHANGED <<questions_file, fs, dataset_file, training_jsonl, training_json, build, recorder>>

\* `export <format>`: export_for_training(output_format)
ExportForTraining(output_format) ==
    LET exc == build_raises(questions_file, fs)
        dataset == build_dataset(questions_file, fs)
        start == [raised |-> "", lines |-> <<>>]
    IN  IF exc # ""
        THEN /\ raised' = exc
             /\ UNCHANGED <<training_jsonl, training_json>>
        ELSE IF output_format = "jsonl"
        THEN LET out == export_jsonl_loop(start, dataset.samples)
             IN  /\ training_jsonl' = Some(out.lines)
                 /\ raised' = out.raised
                 /\ UNCHANGED training_json
        ELSE IF output_format = "json"
        THEN LET out == export_json_loop(start, dataset.samples)
             IN  /\ training_json' = IF out.raised = "" THEN Some(json_dump_array(out.lines))
                                                        ELSE training_json
                 /\ raised' = out.raised
                 /\ UNCHANGED training_jsonl
        ELSE /\ raised' = "ValueError"
             /\ UNCHANGED <<training_jsonl, training_json>>

Export ==
    \E output_format \in Formats :
        /\ ExportForTraining(output_format)
        /\ report' = None
        /\ UNCHANGED <<questions_file, fs, dataset_file, build, recorder>>

\* `summary`: print_summary() builds the dataset and prints from it
PrintSummary ==
    /\ raised' = build_raises(questions_file, fs)
    /\ report' = None
    /\ UNCHANGED <<questions_file, fs, dataset_file, training_jsonl, training_json, build, recorder>>

Next == SaveDataset \/ ValidateDataset \/ Export \/ PrintSummary

Spec == Init /\ [][Next]_vars

\* the same operations over a registry one artifact of which is damaged
SpecDamaged == InitDamaged /\ [][Next]_vars

\* the same operations started beside a dataset.json of an earlier invocation
SpecRebuild == InitPersisted /\ [][Next]_vars

\* the same operations over the worked example
SpecExample == InitExample /\ [][Next]_vars

\* the export command alone
SpecExport == Init /\ [][Export]_vars

\* the validate command alone, over the same registries
SpecValidate == InitDamaged /\ [][ValidateDataset]_vars

----------------------------------------------------------------------------
(* Vocabulary of the properties *)

Questions == questions_file.questions

\* the records of the saved dataset
SavedSamples == IF dataset_file = None THEN <<>> ELSE dataset_file[1].samples

\* the artifact files with every auto-cleanup file taken away
WithoutAutoCleanup(f) ==
    [p \in {x \in DOMAIN f : x.dir # auto_cleanup_dir} |-> f[p]]

\* the candidate paths of one artifact kind, in the documented order
Candidates(kind, q) ==
    IF kind = "audio"
    THEN <<Path(audio_dir, q.uuid, "wav"),
           Path(audio_dir, ToString(q.number), "wav"),
           Path(audio_dir, ToString(q.number), "mp3")>>
    ELSE LET dir == CASE kind = "whisper_transcript" -> whisper_dir
                      [] kind = "auto_cleanup" -> auto_cleanup_dir
                      [] OTHER -> manual_cleanup_dir
         IN  <<Path(dir, q.uuid, "txt"), Path(dir, ToString(q.number), "txt")>>

Kinds == {"audio", "whisper_transcript", "auto_cleanup", "manual_cleanup"}

\* first existing path of a sequence of candidates, or none
RECURSIVE FirstExisting(_, _)
FirstExisting(f, cands) ==
    IF cands = <<>> THEN None
    ELSE IF exists(f, Head(cands)) THEN Some(Head(cands))
         ELSE FirstExisting(f, Tail(cands))

\* an identifier-named and a number-named file of the kind both exist for q
BothNamed(f, kind, q) ==
    /\ exists(f, Candidates(kind, q)[1])
    /\ \E k \in 2..Len(Candidates(kind, q)) : exists(f, Candidates(kind, q)[k])

----------------------------------------------------------------------------
(* C1: in every record of the saved dataset, status.is_complete equals
   has_audio and has_whisper_transcript and has_manual_cleanup, and it is the
   value the record has when the auto-cleanup files are taken away; as every
   presence and content of the auto-cleanup files is drawn, adding, removing
   or emptying the auto cleanup never changes is_complete. *)
C1_IsCompleteIgnoresAutoCleanup ==
    \A i \in 1..Len(SavedSamples) :
        LET st == SavedSamples[i].status
            bare == build_sample_metadata(WithoutAutoCleanup(fs), Questions[i]).status
        IN  /\ st.is_complete =
                  (st.has_audio /\ st.has_whisper_transcript /\ st.has_manual_cleanup)
            /\ st.is_complete = bare.is_complete

\* a saved record that is complete although no auto-cleanup file exists
C1_Witness ==
    \E i \in 1..Len(SavedSamples) :
        /\ SavedSamples[i].status.is_complete
        /\ SavedSamples[i].files.auto_cleanup = None
        /\ ~SavedSamples[i].status.has_auto_cleanup

(* C2: for every artifact kind, when an identifier-named and a
   number-named file both exist for a sample, the saved record references the
   identifier-named file. *)
C2_IdentifierNamedWins ==
    \A i \in 1..Len(SavedSamples), kind \in Kinds :
        BothNamed(fs, kind, Questions[i])
            => SavedSamples[i].files[kind] = Some(Candidates(kind, Questions[i])[1])

\* a saved record whose manual cleanup exists under both names
C2_Witness ==
    \E i \in 1..Len(SavedSamples) :
        /\ BothNamed(fs, "manual_cleanup", Questions[i])
        /\ SavedSamples[i].files.manual_cleanup # None

(* C3: the file reference of every kind in a saved record is the first
   existing candidate in the documented order (identifier.wav, number.wav,
   number.mp3 for audio; identifier.txt, number.txt for a text artifact), and
   none exactly when no candidate exists; whether a candidate is empty plays
   no part. *)
C3_FirstExistingCandidate ==
    \A i \in 1..Len(SavedSamples), kind \in Kinds :
        LET cands == Candidates(kind, Questions[i])
            ref == SavedSamples[i].files[kind]
        IN  /\ ref = FirstExisting(fs, cands)
            /\ (ref = None) <=> (\A k \in 1..Len(cands) : ~exists(fs, cands[k]))

\* a saved record that references an empty identifier-named transcript while
\* the number-named transcript has words
C3_Witness ==
    \E i \in 1..Len(SavedSamples) :
        LET cands == Candidates("whisper_transcript", Questions[i])
        IN  /\ exists(fs, cands[1]) /\ strip(fs[cands[1]].data) = <<>>
            /\ exists(fs, cands[2]) /\ strip(fs[cands[2]].data) # <<>>
            /\ SavedSamples[i].files.whisper_transcript = Some(cands[1])
            /\ ~SavedSamples[i].status.has_whisper_transcript

----------------------------------------------------------------------------
(* Vocabulary of the export and validation properties *)

\* the dataset the operations build from the files as they are
Built == build_dataset(questions_file, fs)

\* the records read back from the two export files
JsonlRecords ==
    IF training_jsonl = None THEN <<>>
    ELSE [k \in 1..Len(training_jsonl[1]) |-> json_loads(training_jsonl[1][k])]

JsonRecords ==
    IF training_json = None THEN <<>>
    ELSE [k \in 1..Len(training_json[1].array) |-> json_loads(training_json[1].array[k])]

\* the positions of the complete samples, and the k-th of them in registry order
CompleteAt(samples) == {i \in 1..Len(samples) : samples[i].status.is_complete}

RECURSIVE NthOf(_, _)
NthOf(S, k) ==
    LET least == CHOOSE i \in S : \A j \in S : i <= j
    IN  IF k = 1 THEN least ELSE NthOf(S \ {least}, k - 1)

\* the text of the resolved file of a kind, trimmed
ArtifactText(f, kind, q) == strip(f[FirstExisting(f, Candidates(kind, q))[1]].data)

\* records are exactly the complete samples of the registry, in order, each
\* the pair (transcript text, manual cleanup text) with the sample's own metadata
ExportsCompleteSamples(records) ==
    LET samples == Built.samples
        done == CompleteAt(samples)
    IN  /\ Len(records) = Cardinality(done)
        /\ \A k \in 1..Len(records) :
               LET i == NthOf(done, k)
                   q == Questions[i]
               IN  /\ records[k].input = ArtifactText(fs, "whisper_transcript", q)
                   /\ records[k].output = ArtifactText(fs, "manual_cleanup", q)
                   /\ records[k].metadata = [sample_id |-> q.uuid,
                                             sample_number |-> q.number,
                                             question |-> q.question]

(* C4: each export file holds exactly one record per complete sample, in
   registry order, and none for an incomplete sample; a record's input is the
   sample's transcript text, its output the manual cleanup text, its metadata
   the identifier, number and prompt of the same sample; and no call over an
   existing registry ends in an error other than the unsupported-format one. *)
C4_ExportEmitsCompleteSamples ==
    /\ training_jsonl # None => ExportsCompleteSamples(JsonlRecords)
    /\ training_json # None => ExportsCompleteSamples(JsonRecords)
    /\ questions_file.exists => raised \in {"", "ValueError"}

\* a line-per-record export of a two-question registry that holds one record:
\* the other sample is incomplete and left out
C4_Witness ==
    /\ training_jsonl # None
    /\ Len(Questions) = 2
    /\ Len(JsonlRecords) = 1
    /\ raised = ""

(* C5: once both export files are written from the same registry and
   files, the line-per-record file and the array file hold the same sequence
   of {input, output, metadata} records. *)
C5_BothFramingsSameRecords ==
    (training_jsonl # None /\ training_json # None) => JsonlRecords = JsonRecords

\* both files written, with two records each
C5_Witness ==
    /\ training_jsonl # None /\ training_json # None
    /\ Len(JsonlRecords) = 2 /\ Len(JsonRecords) = 2

\* the report of the last validation, and the elements of a sequence
Report == report[1]
Range(seq) == {seq[k] : k \in 1..Len(seq)}

MissingAudio == "Missing audio file"
MissingTranscript == "Missing Whisper transcript"
MissingManual == "Missing manual cleanup (ground truth)"
EmptyManual == "Manual cleanup is empty"

(* C6: in a report, a sample's error findings are 'missing audio' exactly
   when its has_audio is false and 'missing transcript' exactly when its
   has_whisper_transcript is false, each once and nothing else; the report's
   error list is these findings in sample order, tagged with the sample
   number. *)
C6_ErrorsAreMissingAudioAndTranscript ==
    report # None =>
        LET samples == Built.samples
            entries == Report.samples
        IN  /\ Len(entries) = Len(samples)
            /\ \A i \in 1..Len(entries) :
                   LET st == samples[i].status
                       errs == entries[i].errors
                   IN  /\ (MissingAudio \in Range(errs)) <=> ~st.has_audio
                       /\ (MissingTranscript \in Range(errs)) <=> ~st.has_whisper_transcript
                       /\ Range(errs) \subseteq {MissingAudio, MissingTranscript}
                       /\ Len(errs) = Cardinality(Range(errs))
            /\ \A e \in Range(Report.errors) :
                   \E i \in 1..Len(entries) :
                       /\ e.sample_number = entries[i].sample_number
                       /\ e.text \in Range(entries[i].errors)

\* a report on a sample that has audio and no transcript: one error only
C6_Witness ==
    /\ report # None
    /\ \E i \in 1..Len(Report.samples) :
           /\ Report.samples[i].errors = <<MissingTranscript>>
           /\ Built.samples[i].status.has_audio

(* C7: a report is the report the validator gives when the auto-cleanup
   files are taken away; as every presence and content of the auto-cleanup
   files is drawn, no finding depends on the auto cleanup. *)
C7_ReportIgnoresAutoCleanup ==
    report # None =>
        Report = validate_dataset(build_dataset(questions_file, WithoutAutoCleanup(fs)))

\* a report without any finding on a sample that has no auto-cleanup file
C7_Witness ==
    /\ report # None
    /\ Report.errors = <<>> /\ Report.warnings = <<>>
    /\ \E i \in 1..Len(Built.samples) : Built.samples[i].files.auto_cleanup = None

(* C8: in a report, valid holds exactly when the error list is empty,
   exactly when no sample entry has an error finding, and exactly when every
   sample entry is valid; warnings play no part. *)
C8_ValidIffNoErrors ==
    report # None =>
        /\ Report.valid <=> (Report.errors = <<>>)
        /\ Report.valid <=> (\A i \in 1..Len(Report.samples) : Report.samples[i].errors = <<>>)
        /\ Report.valid <=> (\A i \in 1..Len(Report.samples) : Report.samples[i].valid)

\* a valid report that carries a warning
C8_Witness ==
    /\ report # None
    /\ Report.valid
    /\ Report.warnings # <<>>

\* q has audio and a transcript with words, and no manual cleanup file
AwaitsManualCleanup(f, q) ==
    LET st == build_sample_metadata(f, q).status
    IN  /\ FirstExisting(f, Candidates("manual_cleanup", q)) = None
        /\ st.has_audio
        /\ st.has_whisper_transcript

(* C9: for a sample with audio and a non-empty transcript and no manual
   cleanup file: the saved record is not complete; a report warns 'missing
   manual cleanup' for it, gives it no error and holds it valid, and the
   dataset is valid when it is the only sample; no export file holds a record
   of it. *)
C9_NoManualCleanup ==
    \A i \in 1..Len(Questions) :
        AwaitsManualCleanup(fs, Questions[i]) =>
            /\ dataset_file # None => ~SavedSamples[i].status.is_complete
            /\ report # None =>
                   /\ MissingManual \in Range(Report.samples[i].warnings)
                   /\ [sample_number |-> Questions[i].number, text |-> MissingManual]
                          \in Range(Report.warnings)
                   /\ Report.samples[i].errors = <<>>
                   /\ Report.samples[i].valid
                   /\ Len(Questions) = 1 => Report.valid
            /\ \A r \in Range(JsonlRecords) \cup Range(JsonRecords) :
                   r.metadata.sample_id # Questions[i].uuid

\* such a sample, saved, validated and exported beside a complete one
C9_Witness ==
    /\ dataset_file # None /\ report # None /\ training_jsonl # None
    /\ Len(JsonlRecords) = 1
    /\ \E i \in 1..Len(Questions) : AwaitsManualCleanup(fs, Questions[i])

(* C10: for a sample whose manual cleanup file is present and holds no
   word (empty or whitespace only), a report carries the 'Manual cleanup is
   empty' warning for that sample. *)
C10_EmptyManualCleanupWarned ==
    report # None =>
        \A i \in 1..Len(Questions) :
            LET ref == FirstExisting(fs, Candidates("manual_cleanup", Questions[i]))
            IN  (ref # None /\ count_words(fs[ref[1]].data) = 0)
                    => EmptyManual \in Range(Report.samples[i].warnings)

----------------------------------------------------------------------------
(* C11: over an empty registry no call ends in an error other than the
   unsupported-format one, and the dataset saved from it has total_samples 0
   and completion_percentage 0; over every registry drawn the percentage is
   defined, being the guarded quotient. *)
C11_EmptyRegistryZeroPercent ==
    /\ (questions_file.exists /\ Questions = <<>>) =>
           /\ raised \in {"", "ValueError"}
           /\ dataset_file # None =>
                  /\ dataset_file[1].statistics.total_samples = 0
                  /\ dataset_file[1].statistics.completion_percentage = 0
    /\ dataset_file # None => dataset_file[1].statistics.completion_percentage \in Nat

\* the dataset of the empty registry, saved without an error
C11_Witness ==
    /\ questions_file.exists /\ Questions = <<>>
    /\ dataset_file # None
    /\ raised = ""

(* C12: the saved dataset holds one record per registry entry, in registry
   order; total_samples is the number of entries, recorded_samples the number
   of records whose recorded flag is true, completed_samples the number of
   records with is_complete; so completed_samples lies between 0 and
   total_samples and completion_percentage between 0 and 100. *)
C12_StatisticsCountRecords ==
    dataset_file # None =>
        LET samples == dataset_file[1].samples
            stats == dataset_file[1].statistics
        IN  /\ Len(samples) = Len(Questions)
            /\ \A i \in 1..Len(samples) :
                   /\ samples[i].id = Questions[i].uuid
                   /\ samples[i].recorded = get_recorded(Questions[i])
            /\ stats.total_samples = Len(Questions)
            /\ stats.recorded_samples =
                   Cardinality({i \in 1..Len(samples) : samples[i].recorded})
            /\ stats.completed_samples =
                   Cardinality({i \in 1..Len(samples) : samples[i].status.is_complete})
            /\ 0 <= stats.completed_samples
            /\ stats.completed_samples <= stats.total_samples
            /\ 0 <= stats.completion_percentage
            /\ stats.completion_percentage <= 100

\* a saved dataset of two records: the one flagged recorded has no file, the
\* other is complete, so one is recorded, one completed, and half is done
C12_Witness ==
    /\ dataset_file # None
    /\ dataset_file[1].statistics.total_samples = 2
    /\ dataset_file[1].statistics.recorded_samples = 1
    /\ dataset_file[1].statistics.completed_samples = 1
    /\ dataset_file[1].statistics.completion_percentage = 50
    /\ \E i \in 1..2 :
           /\ dataset_file[1].samples[i].recorded
           /\ ~dataset_file[1].samples[i].status.has_audio

----------------------------------------------------------------------------
(* Damaged artifacts *)

\* the exceptions build_dataset can end with
BuildErrors == {"FileNotFoundError", "UnicodeDecodeError"}

\* the positions of the samples whose resolved audio file is damaged
DamagedAudioAt ==
    {i \in 1..Len(Questions) :
        LET ref == FirstExisting(fs, Candidates("audio", Questions[i]))
        IN  ref # None /\ ~fs[ref[1]].decodable}

(* C13: a failure of one sample's artifact never aborts the build: over an
   existing registry no call ends in a build error, whether a text artifact
   cannot be decoded or an audio file cannot; the saved dataset holds a
   record for every registry entry, and the record of a sample whose audio
   cannot be decoded has a null duration. *)
C13_ArtifactFailureNeverAborts ==
    /\ questions_file.exists => raised \notin BuildErrors
    /\ dataset_file # None =>
           /\ Len(SavedSamples) = Len(Questions)
           /\ \A i \in DamagedAudioAt :
                  SavedSamples[i].audio_metadata[1].duration_seconds = None

(* C14: every validate call completes and returns a report with the
   fields valid, errors, warnings and samples; it never ends in an exception,
   whatever the state of the samples' artifacts. *)
C14_ValidateAlwaysReports ==
    [][ValidateDataset =>
           /\ raised' = ""
           /\ report' # None
           /\ DOMAIN report'[1] = {"valid", "errors", "warnings", "samples"}]_vars

(* C15: every export call with a format other than 'jsonl' and 'json'
   ends in the ValueError of the unsupported format, whatever the registry
   and the artifact files are, and leaves every file as it was. *)
C15_UnsupportedFormatIsValueError ==
    [][\A output_format \in Formats \ {"jsonl", "json"} :
           ExportForTraining(output_format) =>
               /\ raised' = "ValueError"
               /\ UNCHANGED <<questions_file, fs, dataset_file, training_jsonl,
                              training_json>>]_vars

----------------------------------------------------------------------------
(* Content of a record *)

TextKinds == {"whisper_transcript", "auto_cleanup", "manual_cleanup"}

\* the has_* flag and the word count of a text artifact kind
HasFlag(status, kind) ==
    CASE kind = "whisper_transcript" -> status.has_whisper_transcript
      [] kind = "auto_cleanup" -> status.has_auto_cleanup
      [] OTHER -> status.has_manual_cleanup

WordCount(stats, kind) ==
    CASE kind = "whisper_transcript" -> stats.whisper_word_count
      [] kind = "auto_cleanup" -> stats.auto_cleanup_word_count
      [] OTHER -> stats.manual_cleanup_word_count

(* C16: in every saved record and for every text artifact kind, content
   has the kind's key exactly when the resolved file exists and its trimmed
   text is not empty, exactly when the kind's has_* flag is true, and exactly
   when the kind's word count is not null; the entry is the trimmed text. *)
C16_ContentIffNonEmptyText ==
    \A i \in 1..Len(SavedSamples), kind \in TextKinds :
        LET sample == SavedSamples[i]
            ref == FirstExisting(fs, Candidates(kind, Questions[i]))
            present == kind \in DOMAIN sample.content
        IN  /\ present <=> (ref # None /\ strip(fs[ref[1]].data) # <<>>)
            /\ present <=> HasFlag(sample.status, kind)
            /\ present <=> (WordCount(sample.text_statistics, kind) # None)
            /\ present => sample.content[kind] = strip(fs[ref[1]].data)

\* a saved record whose transcript has words and whose manual cleanup file
\* exists holding whitespace only: content has the first key and not the second
C16_Witness ==
    \E i \in 1..Len(SavedSamples) :
        LET ref == FirstExisting(fs, Candidates("manual_cleanup", Questions[i]))
        IN  /\ ref # None /\ fs[ref[1]].data # <<>> /\ strip(fs[ref[1]].data) = <<>>
            /\ DOMAIN SavedSamples[i].content = {"whisper_transcript"}
            /\ SavedSamples[i].files.manual_cleanup # None

----------------------------------------------------------------------------
(* Rebuilds *)

\* a dataset without its metadata: records and statistics
Core(dataset) == [statistics |-> dataset.statistics, samples |-> dataset.samples]

(* C17: whenever a build replaces dataset.json, the records (resolved
   paths, flags, content) and the statistics written are those of the
   registry and the artifact files alone, whatever dataset.json held before;
   and when the file replaced was itself written by a build over the same
   registry and files, the two datasets differ in the build time only. *)
C17_RebuildIsDeterministic ==
    [][dataset_file' # dataset_file =>
           /\ Core(dataset_file'[1]) = build_dataset(questions_file, fs)
           /\ dataset_file[1].metadata.created \in Clock =>
                  /\ Core(dataset_file'[1]) = Core(dataset_file[1])
                  /\ dataset_file'[1].metadata.created # dataset_file[1].metadata.created]_vars

\* the persisted dataset.json replaced by a build at the later reading of the
\* clock, with a complete sample the persisted one may not have had
C17_Witness ==
    /\ dataset_file # None
    /\ dataset_file[1].metadata.created = "t2"
    /\ dataset_file[1].statistics.completed_samples >= 1
    /\ raised = ""

----------------------------------------------------------------------------
(* The worked example *)

\* the record of the example's question in the saved dataset
ExampleRecord == dataset_file[1].samples[1]

(* C18 as stated: the record built from the example has whisper word
   count 2 and manual cleanup word count 3, is complete, and the dataset's
   completion_percentage is 100. *)
C18_ExampleCountsTwoAndThree ==
    dataset_file # None =>
        /\ ExampleRecord.text_statistics.whisper_word_count = Some(2)
        /\ ExampleRecord.text_statistics.manual_cleanup_word_count = Some(3)
        /\ ExampleRecord.status.is_complete
        /\ dataset_file[1].statistics.completion_percentage = 100

(* C18 amended: the record built from the example has whisper word
   count 2 and manual cleanup word count 2 ("Hello," and "world." are the
   two whitespace-delimited tokens), is complete, and the dataset's
   completion_percentage is 100. *)
C18_ExampleCountsTwoAndTwo ==
    dataset_file # None =>
        /\ ExampleRecord.text_statistics.whisper_word_count = Some(2)
        /\ ExampleRecord.text_statistics.manual_cleanup_word_count = Some(2)
        /\ ExampleRecord.status.is_complete
        /\ dataset_file[1].statistics.completion_percentage = 100

\* the example's dataset saved: its record carries the two texts, read from
\* files that end in a line break
C18_Witness ==
    /\ dataset_file # None
    /\ ExampleRecord.id = "a1"
    /\ ExampleRecord.content["whisper_transcript"] = HelloWorld
    /\ ExampleRecord.content["manual_cleanup"] = HelloWorldCleaned
    /\ fs[Path(manual_cleanup_dir, "a1", "txt")].data = HelloWorldCleaned \o <<"\n">>

----------------------------------------------------------------------------
(* The build beside a collaborator.  build_sample_metadata asks the
   filesystem again at every Path.exists() and at every read; here each
   source line that does so is a step of its own, and a collaborator may
   create a file between any two of them. *)

\* the files the collaborators may create for q: the recorder's
\* identifier-named recording and texts, the batch processor's texts named
\* after a number-named recording, and a number-named mp3 recording
CollaboratorFiles(q) ==
    (Path(audio_dir, q.uuid, "wav") :> Wav)
    @@ (Path(audio_dir, ToString(q.number), "mp3") :> Wav)
    @@ (Path(whisper_dir, q.uuid, "txt") :> TextFile(TwoWords))
    @@ (Path(whisper_dir, ToString(q.number), "txt") :> TextFile(TwoWords))
    @@ (Path(auto_cleanup_dir, q.uuid, "txt") :> TextFile(OneWord))
    @@ (Path(manual_cleanup_dir, q.uuid, "txt") :> TextFile(EmptyText))
    @@ (Path(manual_cleanup_dir, ToString(q.number), "txt") :> TextFile(OneWord))

\* a collaborator creates one more file, while fewer than MaxFiles exist
Collaborator ==
    /\ Cardinality(DOMAIN fs) < MaxFiles
    /\ \E i \in 1..Len(Questions) :
       \E p \in DOMAIN CollaboratorFiles(Questions[i]) \ DOMAIN fs :
           fs' = (p :> CollaboratorFiles(Questions[i])[p]) @@ fs
    /\ UNCHANGED <<questions_file, dataset_file, training_jsonl, training_json, report,
                   raised, build, recorder>>

\* the rest of the state a step of the build leaves alone
BuildFrame == UNCHANGED <<questions_file, fs, dataset_file, training_jsonl, training_json,
                          report, raised, recorder>>

\* the position after the last step of a sample: the next sample or the statistics
AfterSample(i) == IF i < Len(Questions) THEN "resolve_audio" ELSE "statistics"

\* build_dataset, lines 151-157: the registry is loaded and the loop entered
BeginBuild ==
    /\ build.pc = "idle"
    /\ questions_file.exists
    /\ build' = [pc |-> AfterSample(0), i |-> 1, samples |-> <<>>]
    /\ BuildFrame

\* lines 62-79: the path of one artifact kind is resolved
ResolvePath ==
    /\ build.pc \in {"resolve_audio", "resolve_whisper", "resolve_auto", "resolve_manual"}
    /\ LET q == Questions[build.i]
       IN  build' =
               CASE build.pc = "resolve_audio" ->
                        [pc |-> "resolve_whisper",
                         audio_path |-> resolve_audio(fs, q)] @@ build
                 [] build.pc = "resolve_whisper" ->
                        [pc |-> "resolve_auto",
                         whisper_path |-> resolve_text(fs, whisper_dir, q)] @@ build
                 [] build.pc = "resolve_auto" ->
                        [pc |-> "resolve_manual",
                         auto_cleanup_path |-> resolve_text(fs, auto_cleanup_dir, q)] @@ build
                 [] OTHER ->
                        [pc |-> "read_whisper",
                         manual_cleanup_path |-> resolve_text(fs, manual_cleanup_dir, q)]
                        @@ build
    /\ BuildFrame

\* lines 82-84: one text is read
ReadText ==
    /\ build.pc \in {"read_whisper", "read_auto", "read_manual"}
    /\ build' =
           CASE build.pc = "read_whisper" ->
                    [pc |-> "read_auto",
                     whisper_text |-> read_text_file(fs, build.whisper_path)] @@ build
             [] build.pc = "read_auto" ->
                    [pc |-> "read_manual",
                     auto_cleanup_text |-> read_text_file(fs, build.auto_cleanup_path)] @@ build
             [] OTHER ->
                    [pc |-> "files_audio",
                     manual_cleanup_text |-> read_text_file(fs, build.manual_cleanup_path)]
                    @@ build
    /\ BuildFrame

\* lines 94-97: one entry of "files"
FileRef ==
    /\ build.pc \in {"files_audio", "files_whisper", "files_auto", "files_manual"}
    /\ build' =
           CASE build.pc = "files_audio" ->
                    [pc |-> "files_whisper",
                     files_audio |-> file_ref(fs, build.audio_path)] @@ build
             [] build.pc = "files_whisper" ->
                    [pc |-> "files_auto",
                     files_whisper |-> file_ref(fs, build.whisper_path)] @@ build
             [] build.pc = "files_auto" ->
                    [pc |-> "files_manual",
                     files_auto |-> file_ref(fs, build.auto_cleanup_path)] @@ build
             [] OTHER ->
                    [pc |-> "audio_metadata",
                     files_manual |-> file_ref(fs, build.manual_cleanup_path)] @@ build
    /\ BuildFrame

\* lines 102-106: "audio_metadata"
AudioMetadata ==
    /\ build.pc = "audio_metadata"
    /\ build' = [pc |-> "has_audio",
                 audio_metadata |-> audio_metadata(fs, build.audio_path)] @@ build
    /\ BuildFrame

\* lines 123-131: one entry of "status"
Status ==
    /\ build.pc \in {"has_audio", "has_whisper", "has_auto", "has_manual", "is_complete"}
    /\ build' =
           CASE build.pc = "has_audio" ->
                    [pc |-> "has_whisper",
                     has_audio |-> exists(fs, build.audio_path)] @@ build
             [] build.pc = "has_whisper" ->
                    [pc |-> "has_auto",
                     has_whisper_transcript |->
                        exists(fs, build.whisper_path) /\ Truthy(build.whisper_text)]
                    @@ build
             [] build.pc = "has_auto" ->
                    [pc |-> "has_manual",
                     has_auto_cleanup |->
                        exists(fs, build.auto_cleanup_path) /\ Truthy(build.auto_cleanup_text)]
                    @@ build
             [] build.pc = "has_manual" ->
                    [pc |-> "is_complete",
                     has_manual_cleanup |->
                        exists(fs, build.manual_cleanup_path)
                        /\ Truthy(build.manual_cleanup_text)] @@ build
             [] OTHER ->
                    [pc |-> "content",
                     is_complete |->
                        /\ exists(fs, build.audio_path)
                        /\ exists(fs, build.whisper_path) /\ Truthy(build.whisper_text)
                        /\ exists(fs, build.manual_cleanup_path)
                        /\ Truthy(build.manual_cleanup_text)] @@ build
    /\ BuildFrame

\* lines 135-146 and 160-161: the content is added and the sample appended
AppendSample ==
    /\ build.pc = "content"
    /\ LET q == Questions[build.i]
           sample ==
               [id |-> q.uuid,
                sample_number |-> q.number,
                question |-> q.question,
                recorded |-> get_recorded(q),
                files |-> [audio |-> build.files_audio,
                           whisper_transcript |-> build.files_whisper,
                           auto_cleanup |-> build.files_auto,
                           manual_cleanup |-> build.files_manual],
                audio_metadata |-> build.audio_metadata,
                text_statistics |-> text_statistics(build.whisper_text,
                                                    build.auto_cleanup_text,
                                                    build.manual_cleanup_text),
                status |-> [has_audio |-> build.has_audio,
                            has_whisper_transcript |-> build.has_whisper_transcript,
                            has_auto_cleanup |-> build.has_auto_cleanup,
                            has_manual_cleanup |-> build.has_manual_cleanup,
                            is_complete |-> build.is_complete],
                content |-> sample_content(build.whisper_text, build.auto_cleanup_text,
                                           build.manual_cleanup_text)]
       IN  build' = [pc |-> AfterSample(build.i),
                     i |-> build.i + 1,
                     samples |-> Append(build.samples, sample)]
    /\ BuildFrame

\* lines 163-196 and save_dataset: the statistics are taken, the dataset is
\* stamped and written, and the invocation ends
FinishBuild ==
    /\ build.pc = "statistics"
    /\ \E now \in Clock :
           dataset_file' = Some([metadata |-> dataset_metadata(now),
                                 statistics |-> statistics(build.samples),
                                 samples |-> build.samples])
    /\ build' = [pc |-> "done"]
    /\ raised' = ""
    /\ UNCHANGED <<questions_file, fs, training_jsonl, training_json, report, recorder>>

\* one question, nothing recorded yet
InitConcurrent ==
    \E r \in Registries(1) :
        /\ questions_file = [exists |-> TRUE, questions |-> r]
        /\ fs = EmptyFs
        /\ NoOutput

ConcurrentNext ==
    \/ BeginBuild \/ ResolvePath \/ ReadText \/ FileRef \/ AudioMetadata \/ Status
    \/ AppendSample \/ FinishBuild \/ Collaborator

\* one `build` invocation beside a collaborator
SpecConcurrent == InitConcurrent /\ [][ConcurrentNext]_vars

(* C19: every record of a dataset built while a collaborator creates
   files is the record of one view of the filesystem: files.audio is non-null
   exactly when has_audio is true and exactly when audio_metadata is
   non-null; has_whisper_transcript or has_manual_cleanup true implies that
   the matching files entry is non-null and the matching content entry
   present. *)
C19_OneFilesystemView ==
    \A i \in 1..Len(SavedSamples) :
        LET sample == SavedSamples[i]
        IN  /\ (sample.files.audio # None) <=> sample.status.has_audio
            /\ sample.status.has_audio <=> (sample.audio_metadata # None)
            /\ sample.status.has_whisper_transcript =>
                   /\ sample.files.whisper_transcript # None
                   /\ "whisper_transcript" \in DOMAIN sample.content
            /\ sample.status.has_manual_cleanup =>
                   /\ sample.files.manual_cleanup # None
                   /\ "manual_cleanup" \in DOMAIN sample.content

----------------------------------------------------------------------------
(* C20: no call changes the registry or an artifact file; a step that
   changes dataset.json or an export file is no validate and no summary
   step, and the call that returned a report wrote nothing; a step that
   changes an export file is no build step and leaves dataset.json and the
   other export file as they were; a step that changes dataset.json is no
   export step and leaves both export files as they were. *)
C20_OnlyOwnOutputWritten ==
    [][/\ UNCHANGED <<questions_file, fs>>
       /\ ~UNCHANGED <<dataset_file, training_jsonl, training_json>> =>
              /\ report' = None
              /\ ~(ValidateDataset \/ PrintSummary)
       /\ ~UNCHANGED <<training_jsonl, training_json>> =>
              /\ UNCHANGED dataset_file
              /\ training_jsonl' = training_jsonl \/ training_json' = training_json
              /\ ~SaveDataset
       /\ ~UNCHANGED dataset_file =>
              /\ UNCHANGED <<training_jsonl, training_json>>
              /\ ~Export]_vars

\* both export files written and a report returned by the last call, while
\* dataset.json is still the one an earlier invocation left: the export and
\* validate calls ran beside it
C20_Witness ==
    /\ dataset_file # None /\ dataset_file[1].metadata.created = "t0"
    /\ training_jsonl # None /\ Len(training_jsonl[1]) >= 1
    /\ training_json # None
    /\ report # None

----------------------------------------------------------------------------
(* C21: every saved record with is_complete true has the keys
   whisper_transcript and manual_cleanup in its content, and no export call
   ends in a KeyError, whatever the registry is and whichever artifact files
   are present, absent or empty. *)
C21_CompleteHasBothTexts ==
    /\ \A i \in 1..Len(SavedSamples) :
           SavedSamples[i].status.is_complete =>
               {"whisper_transcript", "manual_cleanup"} \subseteq DOMAIN SavedSamples[i].content
    /\ raised # "KeyError"

\* a registry of two saved and exported without an error: one sample is
\* complete and exported, the other has an empty manual cleanup file and is
\* left out
C21_Witness ==
    /\ Len(SavedSamples) = 2
    /\ training_jsonl # None /\ Len(training_jsonl[1]) = 1
    /\ training_json # None
    /\ raised = ""
    /\ \E i \in 1..2 :
           /\ ~SavedSamples[i].status.is_complete
           /\ SavedSamples[i].files.manual_cleanup # None
           /\ "manual_cleanup" \notin DOMAIN SavedSamples[i].content

----------------------------------------------------------------------------
(* The recorder GUI (src/transcript_recorder.py) and the batch processor
   (src/process_audio.py).  The GUI's event handlers run one at a time on
   the Tk main loop; every stop_recording that captured audio starts a
   thread running process_audio, whose calls to the transcription and cleanup
   services, file writes and registry updates are steps of their own that
   interleave with the handlers and with the other threads. *)

\* the directories of the recorder and of the batch processor, under BASE_DIR
AUDIO_DIR == "audio"
WHISPER_DIR == "whisper-transcripts"
AUTO_CLEANUP_DIR == "auto-cleanup"
MANUAL_CLEANUP_DIR == "manual-cleanups"

\* recordings handed to processing in one run of the GUI
MaxRecordings == 2

\* the texts the transcription and the cleanup service may answer with
Transcriptions == {HelloWorld}
Cleanups == {HelloWorldCleaned}

\* seq without its i-th element
Remove(seq, i) == SubSeq(seq, 1, i - 1) \o SubSeq(seq, i + 1, Len(seq))

\* with open(path, 'w') as f: f.write(text)
write_text(f, p, text) == (p :> TextFile(text)) @@ f

\* the blank manual cleanup file written whether or not one exists
create_blank_manual_cleanup_always(f, stem) ==
    write_text(f, Path(MANUAL_CLEANUP_DIR, stem, "txt"), EmptyText)

\* if not manual_cleanup_path.exists(): write ""
create_blank_manual_cleanup(f, stem) ==
    LET manual_cleanup_path == Path(MANUAL_CLEANUP_DIR, stem, "txt")
    IN  IF ~exists(f, manual_cleanup_path)
        THEN write_text(f, manual_cleanup_path, EmptyText)
        ELSE f

\* a process_audio thread started for (audio_path, uuid): its arguments, its
\* position, and the files its run has logged as saved
Thread(audio_path, uuid) ==
    [audio_path |-> audio_path, uuid |-> uuid, pc |-> "transcribe", saved |-> {audio_path}]

\* the index of the first question with the identifier, 0 when there is none
FirstWithUuid(questions, uuid) ==
    IF \E k \in 1..Len(questions) : questions[k].uuid = uuid
    THEN CHOOSE k \in 1..Len(questions) :
             /\ questions[k].uuid = uuid
             /\ \A j \in 1..(k - 1) : questions[j].uuid # uuid
    ELSE 0

\* q with 'recorded' set and the four artifact paths entered
mark_recorded(q, audio_path) ==
    [key \in DOMAIN q \cup {"recorded", "audio_file", "whisper_transcript",
                            "auto_cleanup", "manual_cleanup"} |->
        CASE key = "recorded" -> TRUE
          [] key = "audio_file" -> audio_path
          [] key = "whisper_transcript" -> Path(WHISPER_DIR, q.uuid, "txt")
          [] key = "auto_cleanup" -> Path(AUTO_CLEANUP_DIR, q.uuid, "txt")
          [] key = "manual_cleanup" -> Path(MANUAL_CLEANUP_DIR, q.uuid, "txt")
          [] OTHER -> q[key]]

\* what a step of the recorder leaves alone besides what it names
RecorderFrame ==
    UNCHANGED <<questions_file, training_jsonl, training_json, report, raised, build>>

\* the artifacts of a question the recorder has processed before, its manual
\* cleanup still blank or written by hand
RecordedFiles(q, manual) ==
    (Path(AUDIO_DIR, q.uuid, "wav") :> Wav)
    @@ (Path(WHISPER_DIR, q.uuid, "txt") :> TextFile(TwoWords))
    @@ (Path(AUTO_CLEANUP_DIR, q.uuid, "txt") :> TextFile(OneWord))
    @@ (Path(MANUAL_CLEANUP_DIR, q.uuid, "txt") :> TextFile(manual))

RECURSIVE RecorderFiles(_, _, _)
RecorderFiles(r, manual, n) ==
    IF n = 0 THEN EmptyFs
    ELSE (IF r[n].recorded THEN RecordedFiles(r[n], manual) ELSE EmptyFs)
         @@ RecorderFiles(r, manual, n - 1)

\* TranscriptRecorderGUI.__init__: the registry BASE_DIR/questions.json is
\* loaded, no question is selected, the record button is disabled.  Every
\* question carries 'recorded' (refresh_question_list reads q['recorded'])
\* and they are numbered in order; the recorded ones have their artifacts in
\* the recorder's directories.  The
\* builder's dataset/questions.json is absent or a copy of the registry, and
\* dataset/data holds nothing.
InitRecorder ==
    \E n \in 1..MaxSamples :
    \E r \in Registries(n), manual \in {EmptyText, OneWord}, copied \in BOOLEAN :
        /\ \A i \in 1..n : "recorded" \in DOMAIN r[i] /\ r[i].number = i
        /\ questions_file = IF copied THEN [exists |-> TRUE, questions |-> r]
                                      ELSE [exists |-> FALSE, questions |-> <<>>]
        /\ fs = RecorderFiles(r, manual, n)
        /\ dataset_file = None
        /\ training_jsonl = None
        /\ training_json = None
        /\ report = None
        /\ raised = ""
        /\ build = Idle
        /\ recorder = [running |-> TRUE,
                       questions_file |-> r,
                       questions |-> r,
                       current_question |-> None,
                       recording |-> FALSE,
                       record_button |-> "disabled",
                       threads |-> <<>>,
                       after |-> 0,
                       launched |-> 0]

\* on_question_select: the selected question becomes the current one and the
\* record button is enabled
OnQuestionSelect ==
    /\ recorder.running
    /\ \E k \in 1..Len(recorder.questions) :
           recorder' = [recorder EXCEPT !.current_question = Some(recorder.questions[k].uuid),
                                        !.record_button = "normal"]
    /\ UNCHANGED <<fs, dataset_file>>
    /\ RecorderFrame

\* toggle_recording while not recording: start_recording.  A disabled button
\* takes no click.
StartRecording ==
    /\ recorder.running
    /\ recorder.record_button = "normal"
    /\ ~recorder.recording
    /\ recorder.current_question # None
    /\ recorder' = [recorder EXCEPT !.recording = TRUE]
    /\ UNCHANGED <<fs, dataset_file>>
    /\ RecorderFrame

\* toggle_recording while recording: stop_recording.  Without audio data the
\* button is enabled again; otherwise the recording is written to
\* AUDIO_DIR/{uuid}.wav, the button stays disabled and a thread is started.
StopRecording ==
    /\ recorder.running
    /\ recorder.record_button = "normal"
    /\ recorder.recording
    /\ recorder.launched < MaxRecordings
    /\ \E audio_data \in {None, Some(Wav)} :
           IF audio_data = None
           THEN /\ recorder' = [recorder EXCEPT !.recording = FALSE,
                                                !.record_button = "normal"]
                /\ UNCHANGED fs
           ELSE LET uuid == recorder.current_question[1]
                    audio_path == Path(AUDIO_DIR, uuid, "wav")
                IN  /\ fs' = (audio_path :> audio_data[1]) @@ fs
                    /\ recorder' = [recorder EXCEPT
                           !.recording = FALSE,
                           !.record_button = "disabled",
                           !.threads = Append(@, Thread(audio_path, uuid)),
                           !.launched = @ + 1]
    /\ UNCHANGED dataset_file
    /\ RecorderFrame

\* process_audio, lines 343-349: the transcription service raises, or it
\* answers and the transcript is written over WHISPER_DIR/{uuid}.txt
TranscribeAudio(i) ==
    LET th == recorder.threads[i]
    IN  /\ th.pc = "transcribe"
        /\ \/ \E transcript \in Transcriptions :
                  /\ fs' = write_text(fs, Path(WHISPER_DIR, th.uuid, "txt"), transcript)
                  /\ recorder' = [recorder EXCEPT
                         !.threads[i].pc = "cleanup",
                         !.threads[i].saved = @ \cup {Path(WHISPER_DIR, th.uuid, "txt")}]
           \/ /\ recorder' = [recorder EXCEPT !.threads[i].pc = "except"]
              /\ UNCHANGED fs
        /\ UNCHANGED dataset_file
        /\ RecorderFrame

\* the cleanup service answering, with the question marked recorded and the
\* registry saved at once, before the cleanup files are written
CleanupTranscript_marking(i) ==
    LET th == recorder.threads[i]
        k == FirstWithUuid(recorder.questions, th.uuid)
        questions == [recorder.questions EXCEPT ![k] = mark_recorded(@, th.audio_path)]
    IN  /\ th.pc = "cleanup"
        /\ recorder' = [recorder EXCEPT !.threads[i].pc = "update_question",
                                        !.questions = questions,
                                        !.questions_file = questions]
        /\ UNCHANGED <<fs, dataset_file>>
        /\ RecorderFrame

\* lines 353-366: the cleanup service raises, or it answers, the cleanup is
\* written over AUTO_CLEANUP_DIR/{uuid}.txt and a blank manual cleanup file
\* is created unless one exists
CleanupTranscript(i) ==
    LET th == recorder.threads[i]
    IN  /\ th.pc = "cleanup"
        /\ \/ \E cleaned \in Cleanups :
                  /\ fs' = create_blank_manual_cleanup(
                               write_text(fs, Path(AUTO_CLEANUP_DIR, th.uuid, "txt"), cleaned),
                               th.uuid)
                  /\ recorder' = [recorder EXCEPT
                         !.threads[i].pc = "update_question",
                         !.threads[i].saved = @ \cup {Path(AUTO_CLEANUP_DIR, th.uuid, "txt")}]
           \/ /\ recorder' = [recorder EXCEPT !.threads[i].pc = "except"]
              /\ UNCHANGED fs
        /\ UNCHANGED dataset_file
        /\ RecorderFrame

\* lines 369-378: the first question with the identifier is marked recorded
\* in self.questions, and save_questions dumps self.questions to
\* BASE_DIR/questions.json
UpdateQuestion(i) ==
    LET th == recorder.threads[i]
        k == FirstWithUuid(recorder.questions, th.uuid)
        questions == IF k = 0 THEN recorder.questions
                     ELSE [recorder.questions EXCEPT ![k] = mark_recorded(@, th.audio_path)]
    IN  /\ th.pc = "update_question"
        /\ recorder' = [recorder EXCEPT !.threads[i].pc = "update_dataset",
                                        !.questions = questions,
                                        !.questions_file = questions]
        /\ UNCHANGED <<fs, dataset_file>>
        /\ RecorderFrame

\* line 381, update_dataset: DatasetBuilder(BASE_DIR).save_dataset(), whose
\* exception is logged as a warning and goes no further
UpdateDataset(i) ==
    LET exc == build_raises(questions_file, fs)
    IN  /\ recorder.threads[i].pc = "update_dataset"
        /\ \E now \in Clock :
               dataset_file' = IF exc = "" THEN Some(build_dataset_at(questions_file, fs, now))
                                          ELSE dataset_file
        /\ recorder' = [recorder EXCEPT !.threads[i].pc = "complete"]
        /\ UNCHANGED fs
        /\ RecorderFrame

\* lines 383-386: completion is logged, and the refresh of the question list
\* (which changes the list widget only) and the enabling of the record button
\* are handed to the main loop; the thread ends
Complete(i) ==
    /\ recorder.threads[i].pc = "complete"
    /\ recorder' = [recorder EXCEPT !.after = @ + 1, !.threads = Remove(@, i)]
    /\ UNCHANGED <<fs, dataset_file>>
    /\ RecorderFrame

\* lines 388-392: the error is logged and shown, the enabling of the record
\* button is handed to the main loop; the thread ends
Except(i) ==
    /\ recorder.threads[i].pc = "except"
    /\ recorder' = [recorder EXCEPT !.after = @ + 1, !.threads = Remove(@, i)]
    /\ UNCHANGED <<fs, dataset_file>>
    /\ RecorderFrame

\* a step of one process_audio thread
ProcessAudio ==
    /\ recorder.running
    /\ \E i \in 1..Len(recorder.threads) :
           \/ TranscribeAudio(i) \/ CleanupTranscript(i) \/ UpdateQuestion(i)
           \/ UpdateDataset(i) \/ Complete(i) \/ Except(i)

\* the main loop runs a callback handed over with root.after(0, ...): the
\* record button is enabled
RunAfter ==
    /\ recorder.running
    /\ recorder.after > 0
    /\ recorder' = [recorder EXCEPT !.after = @ - 1, !.record_button = "normal"]
    /\ UNCHANGED <<fs, dataset_file>>
    /\ RecorderFrame

\* process_audio.py on an existing recording: the transcript and the cleanup
\* are written over the files named after the recording's stem, and a blank
\* manual cleanup is created unless one exists; a service that raises ends
\* the run with what was written before
process_audio_file(f, audio_path, transcript, cleaned) ==
    LET base_name == audio_path.stem
        transcribed == IF transcript = None THEN f
                       ELSE write_text(f, Path(WHISPER_DIR, base_name, "txt"), transcript[1])
        cleaned_up == write_text(transcribed, Path(AUTO_CLEANUP_DIR, base_name, "txt"), cleaned[1])
    IN  IF transcript = None \/ cleaned = None THEN transcribed
        ELSE create_blank_manual_cleanup(cleaned_up, base_name)

ProcessAudioFile ==
    /\ recorder.running
    /\ \E audio_path \in {p \in DOMAIN fs : p.dir = AUDIO_DIR} :
       \E transcript \in {None} \cup {Some(t) : t \in Transcriptions} :
       \E cleaned \in IF transcript = None THEN {None}
                      ELSE {None} \cup {Some(c) : c \in Cleanups} :
           fs' = process_audio_file(fs, audio_path, transcript, cleaned)
    /\ UNCHANGED <<dataset_file, recorder>>
    /\ RecorderFrame

RecorderNext ==
    \/ OnQuestionSelect \/ StartRecording \/ StopRecording \/ ProcessAudio \/ RunAfter
    \/ ProcessAudioFile

\* one run of the recorder GUI, beside the batch processor
SpecRecorder == InitRecorder /\ [][RecorderNext]_vars

----------------------------------------------------------------------------
(* The recorder and the builder *)

\* the recorder's artifact paths of a question
RecorderPaths(uuid) ==
    [audio |-> Path(AUDIO_DIR, uuid, "wav"),
     whisper_transcript |-> Path(WHISPER_DIR, uuid, "txt"),
     auto_cleanup |-> Path(AUTO_CLEANUP_DIR, uuid, "txt"),
     manual_cleanup |-> Path(MANUAL_CLEANUP_DIR, uuid, "txt")]

\* the registry as the recorder holds it and as it last saved it
Registry == <<recorder.questions, recorder.questions_file>>

ThreadPositions ==
    {"transcribe", "cleanup", "update_question", "update_dataset", "complete", "except"}

\* the step is one of the i-th thread, from one position to another (a
\* thread that starts is appended and one that ends is removed, so the
\* number of threads tells that the i-th is the same thread after the step)
Moves(i, from, to) ==
    /\ Len(recorder'.threads) = Len(recorder.threads)
    /\ recorder.threads[i].pc = from
    /\ recorder'.threads[i].pc = to

\* the step is the one in which the i-th thread marks its question recorded
\* and saves the registry
Marks(i) == Moves(i, "update_question", "update_dataset")

(* C22: when a process_audio run of the recorder has come through its
   update of the dataset, the persisted dataset holds a record of the
   question just recorded with has_audio and has_whisper_transcript true. *)
C22_RebuildSeesRecording ==
    recorder.running =>
        \A i \in 1..Len(recorder.threads) :
            recorder.threads[i].pc = "complete" =>
                \E k \in 1..Len(SavedSamples) :
                    /\ SavedSamples[k].id = recorder.threads[i].uuid
                    /\ SavedSamples[k].status.has_audio
                    /\ SavedSamples[k].status.has_whisper_transcript

(* C23: at most one process_audio run of the recorder is in flight at any
   time, whatever the order of selections, clicks on the record button,
   thread steps and main-loop callbacks. *)
C23_OneProcessingInFlight ==
    recorder.running => Len(recorder.threads) <= 1

(* C24: a process_audio run marks its question recorded and saves the
   registry only when it has saved the recording, the transcript and the
   auto cleanup and a manual cleanup file exists; no other step changes the
   registry, in memory or on disk, and a run whose transcription or cleanup
   failed changes nothing but its own position, the files written before the
   failure staying as they are. *)
C24_RecordedAfterFiles ==
    [][recorder.running =>
          /\ \A i \in 1..Len(recorder.threads) :
                 Marks(i) =>
                     LET th == recorder.threads[i]
                         paths == RecorderPaths(th.uuid)
                     IN  /\ {paths.audio, paths.whisper_transcript, paths.auto_cleanup}
                                \subseteq th.saved
                         /\ th.saved \cup {paths.manual_cleanup} \subseteq DOMAIN fs
          /\ Registry' # Registry => \E i \in 1..Len(recorder.threads) : Marks(i)
          /\ \A i \in 1..Len(recorder.threads) :
                 /\ Moves(i, "transcribe", "except") \/ Moves(i, "cleanup", "except") =>
                        Registry' = Registry /\ fs' = fs
                 /\ recorder.threads[i].pc = "except" =>
                        \A to \in ThreadPositions \ {"except"} : ~Moves(i, "except", to)]_vars

C24_Witness ==
    /\ recorder.running
    /\ \E i \in 1..Len(recorder.threads) :
       \E k, j \in 1..Len(recorder.questions_file) :
           LET th == recorder.threads[i]
           IN  /\ th.pc = "except"
               /\ recorder.questions_file[k].uuid = th.uuid
               /\ ~recorder.questions_file[k].recorded
               /\ RecorderPaths(th.uuid).whisper_transcript \in th.saved
               /\ RecorderPaths(th.uuid).auto_cleanup \notin DOMAIN fs
               /\ "audio_file" \in DOMAIN recorder.questions_file[j]
               /\ recorder.questions_file[j].recorded

(* C25: no step of processing, in the recorder or in the batch processor,
   changes or removes a manual cleanup file that exists, and a manual
   cleanup file that processing creates is blank; a transcript and an auto
   cleanup that processing writes replace what the files held. *)
C25_ManualCleanupNeverOverwritten ==
    [][recorder.running =>
          /\ \A p \in DOMAIN fs :
                 p.dir = MANUAL_CLEANUP_DIR => p \in DOMAIN fs' /\ fs'[p] = fs[p]
          /\ \A p \in DOMAIN fs' \ DOMAIN fs :
                 p.dir = MANUAL_CLEANUP_DIR => fs'[p] = TextFile(EmptyText)
          /\ \A i \in 1..Len(recorder.threads) :
                 LET paths == RecorderPaths(recorder.threads[i].uuid)
                 IN  /\ Moves(i, "transcribe", "cleanup") =>
                            fs'[paths.whisper_transcript].data \in Transcriptions
                     /\ Moves(i, "cleanup", "update_question") =>
                            fs'[paths.auto_cleanup].data \in Cleanups
          /\ \A p \in DOMAIN fs :
                 recorder' = recorder /\ fs'[p] # fs[p] =>
                     \/ p.dir = WHISPER_DIR /\ fs'[p].data \in Transcriptions
                     \/ p.dir = AUTO_CLEANUP_DIR /\ fs'[p].data \in Cleanups]_vars

C25_Witness ==
    /\ recorder.running
    /\ \E i \in 1..Len(recorder.threads) :
           LET th == recorder.threads[i]
               paths == RecorderPaths(th.uuid)
           IN  /\ th.pc = "update_question"
               /\ fs[paths.manual_cleanup].data = OneWord
               /\ fs[paths.whisper_transcript].data = HelloWorld
               /\ fs[paths.auto_cleanup].data = HelloWorldCleaned
    /\ \E p \in DOMAIN fs :
           /\ p.dir = MANUAL_CLEANUP_DIR
           /\ fs[p].data = EmptyText
           /\ Path(AUTO_CLEANUP_DIR, p.stem, "txt") \in DOMAIN fs
           /\ fs[Path(AUTO_CLEANUP_DIR, p.stem, "txt")].data = HelloWorldCleaned

====
